---- MODULE Spec2Model ----
(***************************************************************************)
(* tagsfs: a FUSE filesystem that shows a flat source directory through    *)
(* tag-set directories.  The model follows src/src/database.rs (the index: *)
(* tables tags, file_tags, inodes) and src/src/filesystem.rs (the FUSE     *)
(* handlers).  Strings are sequences of bytes, so that the serialisation   *)
(* of an Entry (sort, join with '/', split, to_string_lossy) is computed   *)
(* the way the code computes it.                                           *)
(***************************************************************************)
EXTENDS Integers, Sequences, FiniteSets, Bags, TLC

VARIABLES db, source, alive, last, mounted, callers

vars == <<db, source, alive, last, mounted, callers>>

(***************************************************************************)
(* Bytes and names                                                         *)
(***************************************************************************)
Slash == 47
InvalidByte == 255
NameA == <<97>>
NameB == <<98>>
NameX == <<InvalidByte>>
Replacement == <<239, 191, 189>>

\* The names the kernel passes and the source directory holds (OsStr).
Names == {NameA, NameB}
\* The same with a name that is not valid UTF-8.
LossyNames == {NameA, NameX}

\* Bounds of the model.
MaxTagId == 2
MaxInodes == 3
MaxOffset == 1
BufferEntries == 4
MaxBytes == 2

FUSE_ROOT_ID == 1

(***************************************************************************)
(* Byte-string helpers                                                     *)
(***************************************************************************)
RECURSIVE to_string_lossy(_)
\* OsStr::to_string_lossy: a byte that cannot occur in UTF-8 becomes U+FFFD.
to_string_lossy(s) ==
    IF s = <<>> THEN <<>>
    ELSE (IF Head(s) = InvalidByte THEN Replacement ELSE <<Head(s)>>)
         \o to_string_lossy(Tail(s))

RECURSIVE StrLess(_, _)
\* The order of String in a BTreeSet: bytewise lexicographic.
StrLess(s, t) ==
    IF t = <<>> THEN FALSE
    ELSE IF s = <<>> THEN TRUE
    ELSE IF Head(s) # Head(t) THEN Head(s) < Head(t)
    ELSE StrLess(Tail(s), Tail(t))

StrMin(S) == CHOOSE s \in S : \A t \in S \ {s} : StrLess(s, t)

RECURSIVE sorted(_)
\* Iteration order of a BTreeSet<String> (and of itertools' sorted()).
sorted(S) ==
    IF S = {} THEN <<>>
    ELSE LET m == StrMin(S) IN <<m>> \o sorted(S \ {m})

RECURSIVE join(_)
\* Itertools::join("/") of a sequence of strings.
join(q) ==
    IF q = <<>> THEN <<>>
    ELSE IF Len(q) = 1 THEN q[1]
    ELSE q[1] \o <<Slash>> \o join(Tail(q))

RECURSIVE split(_, _)
\* str::split('/'): the components of data, cur being the one in progress.
split(data, cur) ==
    IF data = <<>> THEN <<cur>>
    ELSE IF Head(data) = Slash THEN <<cur>> \o split(Tail(data), <<>>)
    ELSE split(Tail(data), Append(cur, Head(data)))

Range(q) == {q[i] : i \in 1..Len(q)}

(***************************************************************************)
(* Entry (filesystem.rs)                                                   *)
(***************************************************************************)
File(name) == [kind |-> "File", name |-> name, tags |-> {}]
Tags(S) == [kind |-> "Tags", name |-> <<>>, tags |-> S]

discrimimant_data(e) ==
    IF e.kind = "File"
    THEN [discriminant |-> "file", data |-> to_string_lossy(e.name)]
    ELSE [discriminant |-> "tags", data |-> join(sorted(e.tags))]

\* impl From<&Path> for Entry: the file-name component of the path.
EntryFrom(name) == File(name)

(***************************************************************************)
(* Results                                                                 *)
(***************************************************************************)
Ok(d, v) == [ok |-> TRUE, val |-> v, db |-> d]
Err(d) == [ok |-> FALSE, val |-> 0, db |-> d]

(***************************************************************************)
(* The index (database.rs).  db.tags is the set of rows [id, tag] of table *)
(* tags, db.file_tags the bag of rows <<file, tag_id>> of table file_tags, *)
(* db.inodes the rows [discriminant, data] of table inodes, the row id     *)
(* being the position (rows are never deleted).                            *)
(***************************************************************************)

\* Schema: tags(id integer primary key, tag unique).
TagsUnique(d, tag) == \A r \in d.tags : r.tag # tag

\* Schema: a new row of tags gets the largest id in use plus one.
NextTagId(d) ==
    IF d.tags = {} THEN 1
    ELSE (CHOOSE r \in d.tags : \A q \in d.tags : q.id <= r.id).id + 1

\* Schema: file_tags(file, tag_id), unique(file, tag_id).
FileTagsUnique(d, file, id) == ~BagIn(<<file, id>>, d.file_tags)

\* Schema: inodes(id integer primary key autoincrement, discriminant, data,
\* unique(discriminant, data)).
InodesUnique(d, dd) == \A i \in 1..Len(d.inodes) : d.inodes[i] # dd

\* Rows of tags in storage order (by id).
RECURSIVE TagRows(_)
TagRows(rows) ==
    IF rows = {} THEN <<>>
    ELSE LET r == CHOOSE x \in rows : \A y \in rows : x.id <= y.id
         IN <<r>> \o TagRows(rows \ {r})

\* Mutant: the NOT IN clause is dropped, every tag is a sub-tag.
sub_tags_all(d, tags) ==
    LET rows == TagRows(d.tags)
    IN [i \in 1..Len(rows) |-> rows[i].tag]

sub_tags(d, tags) ==
    LET rows == TagRows(d.tags)
        names == [i \in 1..Len(rows) |-> rows[i].tag]
        NotIn(t) == t \notin tags
    IN SelectSeq(names, NotIn)

file_tags(d, filename) ==
    {r.tag : r \in {x \in d.tags : BagIn(<<filename, x.id>>, d.file_tags)}}

tag_id(d, tag) ==
    LET rows == {r \in d.tags : r.tag = tag}
    IN IF rows = {} THEN Err(d)
       ELSE Ok(d, (CHOOSE r \in rows : \A q \in rows : r.id <= q.id).id)

create_tag(d, tag) ==
    IF ~TagsUnique(d, tag) THEN Err(d)
    ELSE LET id == NextTagId(d)
         IN Ok([d EXCEPT !.tags = @ \cup {[id |-> id, tag |-> tag]}], id)

\* DELETE FROM file_tags WHERE ...: rows are the rows the condition selects.
DeleteFileTags(d, rows) ==
    [d EXCEPT !.file_tags = [r \in DOMAIN d.file_tags \ rows |-> d.file_tags[r]]]

RECURSIVE remove_tags_from_file(_, _, _)
remove_tags_from_file(d, tags, file) ==
    IF tags = <<>> THEN Ok(d, 0)
    ELSE LET id == tag_id(d, Head(tags))
         IN IF ~id.ok THEN Err(d)
            ELSE remove_tags_from_file(DeleteFileTags(d, {<<file, id.val>>}),
                                       Tail(tags), file)

\* INSERT INTO file_tags (file, tag_id).
InsertFileTag(d, file, id) ==
    IF ~FileTagsUnique(d, file, id) THEN Err(d)
    ELSE Ok([d EXCEPT !.file_tags = @ (+) SetToBag({<<file, id>>})], 0)

RECURSIVE add_tags_to_file(_, _, _)
add_tags_to_file(d, tags, file) ==
    IF tags = <<>> THEN Ok(d, 0)
    ELSE LET found == tag_id(d, Head(tags))
             id == IF found.ok THEN found ELSE create_tag(d, Head(tags))
             ins == InsertFileTag(id.db, file, id.val)
         IN IF ~id.ok THEN Err(id.db)
            ELSE IF ~ins.ok THEN Err(ins.db)
            ELSE add_tags_to_file(ins.db, Tail(tags), file)

\* Mutant: the tag rows are deleted, their membership rows are left behind.
RECURSIVE delete_tags_no_cascade(_, _)
delete_tags_no_cascade(d, tags) ==
    IF tags = <<>> THEN Ok(d, 0)
    ELSE LET id == tag_id(d, Head(tags))
         IN IF ~id.ok THEN Err(d)
            ELSE delete_tags_no_cascade(
                     [d EXCEPT !.tags = {r \in @ : r.id # id.val}], Tail(tags))

\* Mutant: the inode rows of the directories of a deleted tag are cleared too.
RECURSIVE delete_tags_and_inodes(_, _)
delete_tags_and_inodes(d, tags) ==
    IF tags = <<>> THEN Ok(d, 0)
    ELSE LET id == tag_id(d, Head(tags))
             rows == {x \in DOMAIN d.file_tags : x[2] = id.val}
             Cleared(row) ==
                 IF /\ row.discriminant = "tags"
                    /\ Head(tags) \in Range(split(row.data, <<>>))
                 THEN [discriminant |-> "", data |-> <<>>]
                 ELSE row
             d1 == [d EXCEPT !.tags = {r \in @ : r.id # id.val},
                             !.inodes = [i \in DOMAIN @ |-> Cleared(@[i])]]
         IN IF ~id.ok THEN Err(d)
            ELSE delete_tags_and_inodes(DeleteFileTags(d1, rows), Tail(tags))

RECURSIVE delete_tags(_, _)
delete_tags(d, tags) ==
    IF tags = <<>> THEN Ok(d, 0)
    ELSE LET id == tag_id(d, Head(tags))
             rows == {x \in DOMAIN d.file_tags : x[2] = id.val}
             d1 == [d EXCEPT !.tags = {r \in @ : r.id # id.val}]
         IN IF ~id.ok THEN Err(d)
            ELSE delete_tags(DeleteFileTags(d1, rows), Tail(tags))

\* Mutant: the row is appended although an equal row exists.
create_inode_unchecked(d, e) ==
    Ok([d EXCEPT !.inodes = Append(@, discrimimant_data(e))], Len(d.inodes) + 1)

create_inode(d, e) ==
    LET dd == discrimimant_data(e)
    IN IF ~InodesUnique(d, dd) THEN Err(d)
       ELSE Ok([d EXCEPT !.inodes = Append(@, dd)], Len(d.inodes) + 1)

inode(d, e) ==
    LET dd == discrimimant_data(e)
        ids == {i \in 1..Len(d.inodes) : d.inodes[i] = dd}
    IN IF ids = {} THEN Err(d)
       ELSE Ok(d, CHOOSE i \in ids : \A j \in ids : i <= j)

entry(d, ino) ==
    IF ino \notin 1..Len(d.inodes) THEN Err(d)
    ELSE LET row == d.inodes[ino]
         IN IF row.discriminant = "tags"
            THEN Ok(d, Tags({x \in Range(split(row.data, <<>>)) : x # <<>>}))
            ELSE IF row.discriminant = "file"
            THEN Ok(d, File(row.data))
            ELSE Err(d)

\* Mutant: the row is inserted without looking for an existing one.
inode_or_create_always(d, e) == create_inode(d, e)

inode_or_create(d, e) ==
    LET found == inode(d, e)
    IN IF found.ok THEN found ELSE create_inode(d, e)

(***************************************************************************)
(* The source directory: a set of directory entries [name, kind, bytes],   *)
(* kind "file" or "dir", at most one entry per name.                       *)
(***************************************************************************)
DirEntry(name, kind, bytes) == [name |-> name, kind |-> kind, bytes |-> bytes]

\* Path::canonicalize of source/name succeeds iff the entry exists.
canonicalize(src, name) == \E e \in src : e.name = name

\* Path::is_file of source/name.
is_file(src, name) == \E e \in src : e.name = name /\ e.kind = "file"

\* fs::read_dir(source): the entries, here in the order of their names.
RECURSIVE read_dir(_)
read_dir(src) ==
    IF src = {} THEN <<>>
    ELSE LET e == CHOOSE x \in src : \A y \in src \ {x} : StrLess(x.name, y.name)
         IN <<e>> \o read_dir(src \ {e})

\* file_attr_of_file: the kind the attributes carry for source/name.
file_attr_kind(src, name) ==
    IF is_file(src, name) THEN "RegularFile" ELSE "Directory"

(***************************************************************************)
(* Handler outcomes: the index and the source after the handler, whether   *)
(* the process survived it (an unwrap of an Err panics), and the reply.    *)
(***************************************************************************)
NoEntries == <<>>

Reply(errno, ino, kind, entries) ==
    [errno |-> errno, ino |-> ino, kind |-> kind, entries |-> entries,
     full |-> FALSE]

\* The reply of a readdir: reply.ok() after the entries added so far; full
\* records that it was sent because ReplyDirectory::add reported a full buffer.
Listing(entries, full) ==
    [errno |-> "OK", ino |-> 0, kind |-> "", entries |-> entries, full |-> full]

Error(errno) == Reply(errno, 0, "", NoEntries)

Done(d, src, reply) == [db |-> d, source |-> src, alive |-> TRUE, reply |-> reply]

\* A panic unwinds out of the session loop: no reply, the mount is gone.
Panic(d, src) == [db |-> d, source |-> src, alive |-> FALSE, reply |-> Error("PANIC")]

(***************************************************************************)
(* FUSE handlers (filesystem.rs)                                           *)
(***************************************************************************)
\* Mutant: the root row is looked up but its number is not compared.
init_no_assert(d, src) ==
    IF ~inode(d, Tags({})).ok THEN Panic(d, src)
    ELSE Done(d, src, Error("OK"))

\* init: unwrap of the root's inode, then assert_eq!(root_ino, FUSE_ROOT_ID).
init(d, src) ==
    LET root_ino == inode(d, Tags({}))
    IN IF ~root_ino.ok THEN Panic(d, src)
       ELSE IF root_ino.val # FUSE_ROOT_ID THEN Panic(d, src)
       ELSE Done(d, src, Error("OK"))

\* Mutant: the parent's tags are forgotten, the child holds the new tag only.
child_tags_only_row(tags, row) == {row}

\* let mut tags = tags.clone(); tags.insert(row);
child_tags(tags, row) == tags \cup {row}

lookup(d, src, parent, name) ==
    LET p == entry(d, parent)
    IN IF ~p.ok \/ p.val.kind = "File" THEN Done(d, src, Error("EINVAL"))
       ELSE LET tags == p.val.tags
            IN IF canonicalize(src, name)
               THEN LET ino == inode(d, EntryFrom(name))
                    IN IF ~ino.ok THEN Done(d, src, Error("ENODEV"))
                       ELSE IF tags \subseteq file_tags(d, to_string_lossy(name))
                       THEN Done(d, src, Reply("OK", ino.val,
                                               file_attr_kind(src, name), NoEntries))
                       ELSE Done(d, src, Error("ENOENT"))
               ELSE IF to_string_lossy(name) \in Range(sub_tags(d, tags))
               THEN LET r == inode_or_create(d,
                                  Tags(child_tags(tags, to_string_lossy(name))))
                    IN IF ~r.ok THEN Done(r.db, src, Error("ENODEV"))
                       ELSE Done(r.db, src,
                                 Reply("OK", r.val, "Directory", NoEntries))
               ELSE Done(d, src, Error("ENOENT"))

mkdir(d, src, parent, name) ==
    LET r == create_tag(d, to_string_lossy(name))
    IN IF ~r.ok THEN Panic(r.db, src)
       ELSE Done(r.db, src, Reply("OK", r.val, "Directory", NoEntries))

\* Mutant: the backing file is removed whatever the parent is.
unlink_everywhere(d, src, parent, name) ==
    IF ~is_file(src, name) THEN Panic(d, src)
    ELSE Done(d, {e \in src : e.name # name}, Error("OK"))

unlink(d, src, parent, name) ==
    LET p == entry(d, parent)
    IN IF ~p.ok \/ p.val.kind # "Tags" THEN Done(d, src, Error("EINVAL"))
       ELSE IF p.val.tags = {}
       THEN IF ~is_file(src, name) THEN Panic(d, src)
            ELSE Done(d, {e \in src : e.name # name}, Error("OK"))
       ELSE LET r == remove_tags_from_file(d, sorted(p.val.tags),
                                           to_string_lossy(name))
            IN IF ~r.ok THEN Panic(r.db, src)
               ELSE Done(r.db, src, Error("OK"))

rmdir(d, src, parent, name) ==
    LET r == delete_tags(d, <<to_string_lossy(name)>>)
    IN IF ~r.ok THEN Panic(r.db, src)
       ELSE Done(r.db, src, Error("OK"))

rename(d, src, parent, name, newparent, newname) ==
    LET p == entry(d, parent)
        np == entry(d, newparent)
    IN IF ~p.ok \/ p.val.kind # "Tags" THEN Done(d, src, Error("EINVAL"))
       ELSE IF ~np.ok \/ np.val.kind # "Tags" THEN Done(d, src, Error("EINVAL"))
       ELSE LET tags == p.val.tags
                newtags == np.val.tags
                rem == remove_tags_from_file(d, sorted(tags \ newtags),
                                             to_string_lossy(name))
                add == add_tags_to_file(rem.db, sorted(newtags \ tags),
                                        to_string_lossy(name))
            IN IF ~rem.ok THEN Panic(rem.db, src)
               ELSE IF ~add.ok THEN Panic(add.db, src)
               ELSE Done(add.db, src, Error("OK"))

link(d, src, ino, newparent, newname) ==
    LET f == entry(d, ino)
        np == entry(d, newparent)
    IN IF ~f.ok \/ f.val.kind # "File" THEN Done(d, src, Error("EINVAL"))
       ELSE IF ~np.ok \/ np.val.kind # "Tags" THEN Done(d, src, Error("EINVAL"))
       ELSE LET add == add_tags_to_file(d, sorted(np.val.tags),
                                        to_string_lossy(f.val.name))
            IN IF ~add.ok THEN Panic(add.db, src)
               \* the handler ends without using its ReplyEntry
               ELSE Done(add.db, src, Error("NOREPLY"))

\* create once creat() and close() have succeeded: creat() leaves an empty
\* regular file of that name.
create_new(d, src, parent, name) ==
    LET src1 == {x \in src : x.name # name} \cup {DirEntry(name, "file", <<>>)}
        ino == inode_or_create(d, EntryFrom(name))
        p == entry(ino.db, parent)
        tags == IF p.ok /\ p.val.kind = "Tags" THEN p.val.tags ELSE {}
        add == add_tags_to_file(ino.db, sorted(tags), to_string_lossy(name))
    IN IF ~ino.ok THEN Panic(ino.db, src1)
       ELSE IF ~add.ok THEN Panic(add.db, src1)
       ELSE Done(add.db, src1, Reply("OK", ino.val, "RegularFile", NoEntries))

\* Mutant: the is_file test is missing, creat() runs on the existing file.
create_unchecked(d, src, parent, name) ==
    IF canonicalize(src, name) /\ ~is_file(src, name)
    THEN Done(d, src, Error("MINUS1"))
    ELSE create_new(d, src, parent, name)

create(d, src, parent, name) ==
    IF is_file(src, name) THEN Done(d, src, Error("EEXIST"))
    \* creat() on a directory returns -1, which close() then rejects
    ELSE IF canonicalize(src, name) THEN Done(d, src, Error("MINUS1"))
    ELSE create_new(d, src, parent, name)

\* One directory entry of a readdir reply.
Emitted(ino, cookie, kind, name) ==
    [ino |-> ino, cookie |-> cookie, kind |-> kind, name |-> name]

\* ReplyDirectory::add: TRUE (and the entry is not added) when the buffer is full.
ReplyFull(entries, capacity) == Len(entries) >= capacity

\* A readdir in progress: index, cookie counter, reply buffer, how it ended.
Scan(d, cur, entries, end) == [db |-> d, cur |-> cur, entries |-> entries, end |-> end]

RECURSIVE readdir_files(_, _, _, _, _)
readdir_files(st, files, tags, offset, capacity) ==
    IF files = <<>> \/ st.end # "" THEN st
    ELSE LET file == Head(files)
             cur == st.cur + 1
             next == Scan(st.db, cur, st.entries, "")
             f_ino == inode_or_create(st.db, EntryFrom(file.name))
             after == Scan(f_ino.db, cur, st.entries, "")
         IN IF cur <= offset
            THEN readdir_files(next, Tail(files), tags, offset, capacity)
            ELSE IF ~(tags \subseteq file_tags(st.db, to_string_lossy(file.name)))
            THEN readdir_files(next, Tail(files), tags, offset, capacity)
            ELSE IF ~f_ino.ok THEN Scan(f_ino.db, cur, st.entries, "panic")
            ELSE IF file.kind # "file"
            THEN readdir_files(after, Tail(files), tags, offset, capacity)
            ELSE IF ReplyFull(st.entries, capacity)
            THEN Scan(f_ino.db, cur, st.entries, "full")
            ELSE readdir_files(
                     Scan(f_ino.db, cur,
                          Append(st.entries,
                                 Emitted(f_ino.val, cur, "RegularFile", file.name)),
                          ""),
                     Tail(files), tags, offset, capacity)

RECURSIVE readdir_tags(_, _, _, _)
readdir_tags(st, subs, offset, capacity) ==
    IF subs = <<>> \/ st.end # "" THEN st
    ELSE LET tag == Head(subs)
             cur == st.cur + 1
             ino == inode_or_create(st.db, Tags({tag}))
         IN IF cur <= offset
            THEN readdir_tags(Scan(st.db, cur, st.entries, ""), Tail(subs),
                              offset, capacity)
            ELSE IF ~ino.ok THEN Scan(ino.db, cur, st.entries, "panic")
            ELSE IF ReplyFull(st.entries, capacity)
            THEN Scan(ino.db, cur, st.entries, "full")
            ELSE readdir_tags(
                     Scan(ino.db, cur,
                          Append(st.entries, Emitted(ino.val, cur, "Directory", tag)),
                          ""),
                     Tail(subs), offset, capacity)

\* Mutant: the cookies of the tags start again at 1 after those of the files.
readdir_restart(d, src, ino, offset, capacity) ==
    LET e == entry(d, ino)
    IN IF ~e.ok THEN Done(d, src, Error("ENOENT"))
       ELSE IF e.val.kind = "File" THEN Done(d, src, Error("EINVAL"))
       ELSE LET tags == e.val.tags
                a == readdir_files(Scan(d, 0, NoEntries, ""), read_dir(src), tags,
                                   offset, capacity)
                b == readdir_tags(Scan(a.db, 0, a.entries, a.end),
                                  sub_tags(a.db, tags), offset, capacity)
            IN IF b.end = "panic" THEN Panic(b.db, src)
               ELSE Done(b.db, src, Listing(b.entries, b.end = "full"))

readdir(d, src, ino, offset, capacity) ==
    LET e == entry(d, ino)
    IN IF ~e.ok THEN Done(d, src, Error("ENOENT"))
       ELSE IF e.val.kind = "File" THEN Done(d, src, Error("EINVAL"))
       ELSE LET tags == e.val.tags
                a == readdir_files(Scan(d, 0, NoEntries, ""), read_dir(src), tags,
                                   offset, capacity)
                b == readdir_tags(a, sub_tags(a.db, tags), offset, capacity)
            IN IF b.end = "panic" THEN Panic(b.db, src)
               ELSE Done(b.db, src, Listing(b.entries, b.end = "full"))

\* The reply of an open or an opendir: reply.opened(fh, flags).
Opened(fh) ==
    [errno |-> "OK", ino |-> 0, kind |-> "", entries |-> NoEntries,
     full |-> FALSE, fh |-> fh]

\* The reply of a read (reply.data) or of a write (reply.written).
Data(bytes) ==
    [errno |-> "OK", ino |-> 0, kind |-> "", entries |-> NoEntries,
     full |-> FALSE, data |-> bytes]

Written(size) ==
    [errno |-> "OK", ino |-> 0, kind |-> "", entries |-> NoEntries,
     full |-> FALSE, written |-> size]

\* The bytes of source/name.
bytes_of(src, name) == (CHOOSE e \in src : e.name = name).bytes

getattr(d, src, ino) ==
    LET e == entry(d, ino)
    IN IF ~e.ok THEN Done(d, src, Error("ENOENT"))
       ELSE IF e.val.kind = "File"
       THEN IF canonicalize(src, e.val.name)
            THEN Done(d, src, Reply("OK", ino, file_attr_kind(src, e.val.name),
                                    NoEntries))
            ELSE Done(d, src, Error("ENOENT"))
       ELSE Done(d, src, Reply("OK", ino, "Directory", NoEntries))

\* libc::truncate(path, size): the file is cut or filled with zero bytes.
truncate(bytes, size) ==
    [i \in 1..size |-> IF i <= Len(bytes) THEN bytes[i] ELSE 0]

\* setattr with the size argument (<<>> is None, <<n>> is Some(n)); the mode,
\* owner and time arguments are None.
setattr(d, src, ino, size) ==
    LET e == entry(d, ino)
    IN IF ~e.ok \/ e.val.kind # "File" THEN Done(d, src, Error("EINVAL"))
       ELSE IF ~canonicalize(src, e.val.name) THEN Done(d, src, Error("EINVAL"))
       ELSE LET name == e.val.name
                kind == file_attr_kind(src, name)
                old == bytes_of(src, name)
            IN IF size = <<>> \/ size[1] = Len(old)
               THEN Done(d, src, Reply("OK", ino, kind, NoEntries))
               \* truncate() on a directory returns -1
               ELSE IF ~is_file(src, name) THEN Done(d, src, Error("MINUS1"))
               ELSE Done(d,
                         {x \in src : x.name # name}
                             \cup {DirEntry(name, "file", truncate(old, size[1]))},
                         Reply("OK", ino, kind, NoEntries))

read(d, src, ino, offset, size) ==
    LET e == entry(d, ino)
    IN IF ~e.ok THEN Done(d, src, Error("ENOENT"))
       ELSE IF e.val.kind # "File" THEN Done(d, src, Error("ENODATA"))
       ELSE IF ~canonicalize(src, e.val.name) THEN Panic(d, src)
       \* read() on a directory fails with EISDIR
       ELSE IF ~is_file(src, e.val.name) THEN Panic(d, src)
       ELSE LET bytes == bytes_of(src, e.val.name)
                to == IF offset + size <= Len(bytes) THEN offset + size
                      ELSE Len(bytes)
            IN Done(d, src, Data(SubSeq(bytes, offset + 1, to)))

\* The file is opened with append(true): the data go to its end whatever the
\* seek before.
write(d, src, ino, offset, data) ==
    LET e == entry(d, ino)
    IN IF ~e.ok \/ e.val.kind # "File" THEN Done(d, src, Error("EINVAL"))
       ELSE IF ~canonicalize(src, e.val.name) THEN Panic(d, src)
       \* open() for writing on a directory fails with EISDIR
       ELSE IF ~is_file(src, e.val.name) THEN Panic(d, src)
       ELSE LET name == e.val.name
            IN Done(d,
                    {x \in src : x.name # name}
                        \cup {DirEntry(name, "file", bytes_of(src, name) \o data)},
                    Written(Len(data)))

\* The handlers that are not implemented.
readlink(d, src, ino) == Done(d, src, Error("ENOSYS"))

mknod(d, src, ino) == Done(d, src, Error("ENOSYS"))

\* Mutant: symlink answers like the other handlers that are not implemented.
symlink_unimplemented(d, src, ino) == Done(d, src, Error("ENOSYS"))

symlink(d, src, ino) == Done(d, src, Error("EPERM"))

flush(d, src, ino) == Done(d, src, Error("ENOSYS"))

fsync(d, src, ino) == Done(d, src, Error("ENOSYS"))

readdirplus(d, src, ino) == Done(d, src, Error("ENOSYS"))

fsyncdir(d, src, ino) == Done(d, src, Error("ENOSYS"))

setxattr(d, src, ino) == Done(d, src, Error("ENOSYS"))

getxattr(d, src, ino) == Done(d, src, Error("ENOSYS"))

listxattr(d, src, ino) == Done(d, src, Error("ENOSYS"))

removexattr(d, src, ino) == Done(d, src, Error("ENOSYS"))

access(d, src, ino) == Done(d, src, Error("ENOSYS"))

getlk(d, src, ino) == Done(d, src, Error("ENOSYS"))

setlk(d, src, ino) == Done(d, src, Error("ENOSYS"))

bmap(d, src, ino) == Done(d, src, Error("ENOSYS"))

ioctl(d, src, ino) == Done(d, src, Error("ENOSYS"))

fallocate(d, src, ino) == Done(d, src, Error("ENOSYS"))

lseek(d, src, ino) == Done(d, src, Error("ENOSYS"))

copy_file_range(d, src, ino) == Done(d, src, Error("ENOSYS"))

\* The handlers that do nothing but answer.
open(d, src, ino) == Done(d, src, Opened(0))

opendir(d, src, ino) == Done(d, src, Opened(0))

release(d, src, ino) == Done(d, src, Error("OK"))

releasedir(d, src, ino) == Done(d, src, Error("OK"))

(***************************************************************************)
(* The state machine.  db and source are the index and the source          *)
(* directory; alive is FALSE once a handler has panicked; last is the most *)
(* recent request with the reply it got, kept when its operation is one of *)
(* the watched ones W and cleared by any other request.  mounted is TRUE   *)
(* once init has returned Ok: the session serves requests only then.       *)
(* callers holds, for each connection that runs inode_or_create on the     *)
(* index statement by statement, the entry it asks for, the statement it   *)
(* is at and what it returned.                                             *)
(***************************************************************************)
Callers == {1, 2}

Idle == [pc |-> "idle", e |-> Tags({}), ok |-> FALSE, val |-> 0]

NoCallers == [c \in Callers |-> Idle]

Call(op, ino, name, newparent, offset) ==
    [op |-> op, ino |-> ino, name |-> name, newparent |-> newparent,
     offset |-> offset, reply |-> Error("")]

NoCall == Call("", 0, <<>>, 0, 0)

\* The new names a rename or a link carries: for a rename of NameA a different
\* name, for a rename of NameB the same one.
NewNames == {NameB}

\* The inode numbers a request may carry: every row, and one that has none.
Inos == 1..(Len(db.inodes) + 1)

\* The bounds on the two row counters: no handler allocates beyond them.
WithinBounds(d) ==
    /\ Len(d.inodes) > Len(db.inodes) => Len(d.inodes) <= MaxInodes
    /\ \A r \in d.tags \ db.tags : r.id <= MaxTagId

Handle(W, call, out) ==
    /\ alive
    /\ mounted
    /\ WithinBounds(out.db)
    /\ UNCHANGED <<mounted, callers>>
    /\ db' = out.db
    /\ source' = out.source
    /\ alive' = out.alive
    /\ last' = IF call.op \in W THEN [call EXCEPT !.reply = out.reply] ELSE NoCall

Lookup(N, W) ==
    \E parent \in Inos, name \in N :
        Handle(W, Call("lookup", parent, name, 0, 0),
               lookup(db, source, parent, name))

Mkdir(N, W) ==
    \E parent \in Inos, name \in N :
        Handle(W, Call("mkdir", parent, name, 0, 0),
               mkdir(db, source, parent, name))

Unlink(N, W) ==
    \E parent \in Inos, name \in N :
        Handle(W, Call("unlink", parent, name, 0, 0),
               unlink(db, source, parent, name))

Rmdir(N, W) ==
    \E parent \in Inos, name \in N :
        Handle(W, Call("rmdir", parent, name, 0, 0),
               rmdir(db, source, parent, name))

Rename(N, W) ==
    \E parent \in Inos, name \in N, newparent \in Inos, newname \in NewNames :
        Handle(W, Call("rename", parent, name, newparent, 0),
               rename(db, source, parent, name, newparent, newname))

Link(N, W) ==
    \E ino \in Inos, newparent \in Inos, newname \in NewNames :
        Handle(W, Call("link", ino, <<>>, newparent, 0),
               link(db, source, ino, newparent, newname))

Create(N, W) ==
    \E parent \in Inos, name \in N :
        Handle(W, Call("create", parent, name, 0, 0),
               create(db, source, parent, name))

Readdir(W) ==
    \E ino \in Inos, offset \in 0..MaxOffset, capacity \in {1, BufferEntries} :
        Handle(W, Call("readdir", ino, <<>>, 0, offset),
               readdir(db, source, ino, offset, capacity))

Getattr(W) ==
    \E ino \in Inos :
        Handle(W, Call("getattr", ino, <<>>, 0, 0), getattr(db, source, ino))

\* The sizes a setattr carries: none, or the empty file.
Sizes == {<<>>, <<0>>}

Setattr(W) ==
    \E ino \in Inos, size \in Sizes :
        Handle(W, Call("setattr", ino, <<>>, 0, 0), setattr(db, source, ino, size))

Read(W) ==
    \E ino \in Inos, offset \in 0..MaxOffset :
        Handle(W, Call("read", ino, <<>>, 0, offset),
               read(db, source, ino, offset, 1))

\* The data a write carries.
Payloads == {<<2>>}

Write(W) ==
    \E ino \in Inos, data \in Payloads :
        LET out == write(db, source, ino, 0, data)
        IN /\ \A e \in out.source : Len(e.bytes) <= MaxBytes
           /\ Handle(W, Call("write", ino, <<>>, 0, 0), out)

\* A handler that takes no account of its arguments.
Stub(W, op, ino, out) == Handle(W, Call(op, ino, <<>>, 0, 0), out)

Readlink(W) == \E ino \in Inos : Stub(W, "readlink", ino, readlink(db, source, ino))

Mknod(W) == \E ino \in Inos : Stub(W, "mknod", ino, mknod(db, source, ino))

Symlink(W) == \E ino \in Inos : Stub(W, "symlink", ino, symlink(db, source, ino))

Flush(W) == \E ino \in Inos : Stub(W, "flush", ino, flush(db, source, ino))

Fsync(W) == \E ino \in Inos : Stub(W, "fsync", ino, fsync(db, source, ino))

Readdirplus(W) ==
    \E ino \in Inos : Stub(W, "readdirplus", ino, readdirplus(db, source, ino))

Fsyncdir(W) == \E ino \in Inos : Stub(W, "fsyncdir", ino, fsyncdir(db, source, ino))

Setxattr(W) == \E ino \in Inos : Stub(W, "setxattr", ino, setxattr(db, source, ino))

Getxattr(W) == \E ino \in Inos : Stub(W, "getxattr", ino, getxattr(db, source, ino))

Listxattr(W) ==
    \E ino \in Inos : Stub(W, "listxattr", ino, listxattr(db, source, ino))

Removexattr(W) ==
    \E ino \in Inos : Stub(W, "removexattr", ino, removexattr(db, source, ino))

Access(W) == \E ino \in Inos : Stub(W, "access", ino, access(db, source, ino))

Getlk(W) == \E ino \in Inos : Stub(W, "getlk", ino, getlk(db, source, ino))

Setlk(W) == \E ino \in Inos : Stub(W, "setlk", ino, setlk(db, source, ino))

Bmap(W) == \E ino \in Inos : Stub(W, "bmap", ino, bmap(db, source, ino))

Ioctl(W) == \E ino \in Inos : Stub(W, "ioctl", ino, ioctl(db, source, ino))

Fallocate(W) ==
    \E ino \in Inos : Stub(W, "fallocate", ino, fallocate(db, source, ino))

Lseek(W) == \E ino \in Inos : Stub(W, "lseek", ino, lseek(db, source, ino))

Copy_file_range(W) ==
    \E ino \in Inos :
        Stub(W, "copy_file_range", ino, copy_file_range(db, source, ino))

Open(W) == \E ino \in Inos : Stub(W, "open", ino, open(db, source, ino))

Opendir(W) == \E ino \in Inos : Stub(W, "opendir", ino, opendir(db, source, ino))

Release(W) == \E ino \in Inos : Stub(W, "release", ino, release(db, source, ino))

Releasedir(W) ==
    \E ino \in Inos : Stub(W, "releasedir", ino, releasedir(db, source, ino))

\* inode_or_create run statement by statement by connection c, another
\* connection running between the two: self.inode(entry) ...
Begin(c, e) ==
    /\ alive /\ mounted
    /\ callers[c].pc = "idle"
    /\ callers' = [callers EXCEPT ![c] = [Idle EXCEPT !.pc = "select", !.e = e]]
    /\ UNCHANGED <<db, source, alive, last, mounted>>

Select(c) ==
    /\ alive /\ mounted
    /\ callers[c].pc = "select"
    /\ LET r == inode(db, callers[c].e)
       IN callers' = [callers EXCEPT ![c] =
              IF r.ok THEN [@ EXCEPT !.pc = "done", !.ok = TRUE, !.val = r.val]
              ELSE [@ EXCEPT !.pc = "insert"]]
    /\ UNCHANGED <<db, source, alive, last, mounted>>

\* ... .or_else(|_| self.create_inode(entry))
Insert(c) ==
    /\ alive /\ mounted
    /\ callers[c].pc = "insert"
    /\ LET r == create_inode(db, callers[c].e)
       IN /\ WithinBounds(r.db)
          /\ db' = r.db
          /\ callers' = [callers EXCEPT ![c] =
                 [@ EXCEPT !.pc = "done", !.ok = r.ok, !.val = r.val]]
    /\ UNCHANGED <<source, alive, last, mounted>>

\* The session calls init once, before it serves any request.
InitMount(W) ==
    /\ alive
    /\ ~mounted
    /\ LET out == init(db, source)
       IN /\ alive' = out.alive
          /\ mounted' = out.alive
          /\ last' = IF "init" \in W
                     THEN [Call("init", 0, <<>>, 0, 0) EXCEPT !.reply = out.reply]
                     ELSE NoCall
    /\ UNCHANGED <<db, source, callers>>

\* The source directory at mount time: one file, or a file and a directory.
OneFile(N) == {{DirEntry(NameA, "file", <<1>>)}}

FileAndDir(N) ==
    {{DirEntry(NameA, "file", <<1>>), DirEntry(n, "dir", <<>>)} : n \in N \ {NameA}}

\* The index as the launcher seeds it: the root row only.
FreshDb ==
    [tags |-> {}, file_tags |-> EmptyBag,
     inodes |-> <<discrimimant_data(Tags({}))>>]

\* The index an earlier mount left behind: every name of N is a tag, every
\* entry over N has its inode row, no file is tagged.
RECURSIVE Rows(_)
Rows(entries) ==
    IF entries = <<>> THEN <<>>
    ELSE <<discrimimant_data(Head(entries))>> \o Rows(Tail(entries))

UsedDb(N) ==
    LET T == sorted({to_string_lossy(n) : n \in N})
        F == sorted(N)
        one == [i \in 1..Len(T) |-> Tags({T[i]})]
        files == [i \in 1..Len(F) |-> File(F[i])]
    IN [tags |-> {[id |-> i, tag |-> T[i]] : i \in 1..Len(T)},
        file_tags |-> EmptyBag,
        inodes |-> Rows(<<Tags({})>> \o one \o <<Tags(Range(T))>> \o files)]

\* The state once init has returned Ok on index D and source directory S.
InitOver(N, D, S) ==
    /\ db \in D
    /\ source \in S
    /\ alive = TRUE
    /\ last = NoCall
    /\ mounted = TRUE
    /\ callers = NoCallers

NextOver(N, W) ==
    \/ Lookup(N, W)
    \/ Mkdir(N, W)
    \/ Unlink(N, W)
    \/ Rmdir(N, W)
    \/ Rename(N, W)
    \/ Link(N, W)
    \/ Create(N, W)
    \/ Readdir(W)

\* The handlers of file attributes and file contents.
NextData(W) ==
    \/ Getattr(W)
    \/ Setattr(W)
    \/ Read(W)
    \/ Write(W)

\* The handlers that are not implemented and those that only answer.
NextStubs(W) ==
    \/ Readlink(W)
    \/ Mknod(W)
    \/ Symlink(W)
    \/ Flush(W)
    \/ Fsync(W)
    \/ Readdirplus(W)
    \/ Fsyncdir(W)
    \/ Setxattr(W)
    \/ Getxattr(W)
    \/ Listxattr(W)
    \/ Removexattr(W)
    \/ Access(W)
    \/ Getlk(W)
    \/ Setlk(W)
    \/ Bmap(W)
    \/ Ioctl(W)
    \/ Fallocate(W)
    \/ Lseek(W)
    \/ Copy_file_range(W)
    \/ Open(W)
    \/ Opendir(W)
    \/ Release(W)
    \/ Releasedir(W)

\* The lookup handler watched, on a fresh index.
Init == InitOver(Names, {FreshDb}, OneFile(Names) \cup FileAndDir(Names))

Next == NextOver(Names, {"lookup"})

Spec == Init /\ [][Next]_vars

\* The other handlers watched one at a time, on a used index.
InitUsed == InitOver(Names, {UsedDb(Names)}, OneFile(Names))

InitUsedDir ==
    InitOver(Names, {UsedDb(Names)}, OneFile(Names) \cup FileAndDir(Names))

NextReaddir == NextOver(Names, {"readdir"})

SpecReaddir == InitUsedDir /\ [][NextReaddir]_vars

NextRename == NextOver(Names, {"rename"})

SpecRename == InitUsed /\ [][NextRename]_vars

NextUnlink == NextOver(Names, {"unlink"})

SpecUnlink == InitUsed /\ [][NextUnlink]_vars

NextRmdir == NextOver(Names, {"rmdir"})

SpecRmdir == InitUsed /\ [][NextRmdir]_vars

NextLink == NextOver(Names, {"link"})

SpecLink == InitUsed /\ [][NextLink]_vars

\* File creation watched, with a name that is not valid UTF-8.
InitLossy == InitOver(LossyNames, {FreshDb}, OneFile(LossyNames))

NextLossy == NextOver(LossyNames, {"create"})

SpecLossy == InitLossy /\ [][NextLossy]_vars

(***************************************************************************)
(* Vocabulary of the properties                                            *)
(***************************************************************************)
TagNames(d) == {r.tag : r \in d.tags}

\* The tag set of the directory an inode number denotes.
TagDir(d, ino) == entry(d, ino).val.tags

IsTagDir(d, ino) == entry(d, ino).ok /\ entry(d, ino).val.kind = "Tags"

IsFileIno(d, ino) == entry(d, ino).ok /\ entry(d, ino).val.kind = "File"

RegularFiles(src) == {e.name : e \in {x \in src : x.kind = "file"}}

Replied(op, errno) == last.op = op /\ last.reply.errno = errno

\* The number of entries of a listing with the given kind and name.
Count(entries, kind, name) ==
    Cardinality({i \in 1..Len(entries) :
                    entries[i].kind = kind /\ entries[i].name = name})

(***************************************************************************)
(* C1  Projection: a complete readdir of TagDir(S) (offset 0, buffer never *)
(* full) lists exactly once each regular file of the source whose tags     *)
(* include S, exactly once each tag of the tag table outside S, and        *)
(* nothing else.                                                           *)
(***************************************************************************)
CompleteReaddir == Replied("readdir", "OK") /\ last.offset = 0 /\ ~last.reply.full

C1_Projection ==
    CompleteReaddir =>
        LET S == TagDir(db, last.ino)
            es == last.reply.entries
            Shown == {f \in RegularFiles(source) :
                         S \subseteq file_tags(db, to_string_lossy(f))}
        IN /\ \A f \in Shown : Count(es, "RegularFile", f) = 1
           /\ \A t \in TagNames(db) \ S : Count(es, "Directory", t) = 1
           /\ \A i \in 1..Len(es) :
                \/ es[i].kind = "RegularFile" /\ es[i].name \in Shown
                \/ es[i].kind = "Directory" /\ es[i].name \in TagNames(db) \ S

\* A complete listing of a non-root tag directory that shows a file, hides
\* another file of the source, and lists a tag no shown file carries.
C1_Witness ==
    /\ CompleteReaddir
    /\ TagDir(db, last.ino) # {}
    /\ \E f, g \in RegularFiles(source) :
         /\ Count(last.reply.entries, "RegularFile", f) = 1
         /\ Count(last.reply.entries, "RegularFile", g) = 0
         /\ \E t \in TagNames(db) :
              /\ Count(last.reply.entries, "Directory", t) = 1
              /\ t \notin file_tags(db, to_string_lossy(f))

(***************************************************************************)
(* C2  Rename: after rename(TagDir(S), f, TagDir(S'), newname) the tags of *)
(* f are (old tags \ S) \cup S', whatever f carried before, and the source *)
(* directory (names and bytes) is unchanged.                               *)
(***************************************************************************)
FileKeys == {to_string_lossy(n) : n \in Names \cup LossyNames}

C2_RenameMembership ==
    [][(/\ last'.op = "rename"
        /\ IsTagDir(db, last'.ino)
        /\ IsTagDir(db, last'.newparent))
       => LET f == to_string_lossy(last'.name)
              S == TagDir(db, last'.ino)
              T == TagDir(db, last'.newparent)
          IN /\ file_tags(db', f) = (file_tags(db, f) \ S) \cup T
             /\ source' = source]_vars

(***************************************************************************)
(* C3  Root unlink: after unlink(root, f) on an existing backing file f,   *)
(* source/f does not exist and file_tags(f) is empty.                      *)
(***************************************************************************)
C3_RootUnlink ==
    [][(/\ last'.op = "unlink"
        /\ IsTagDir(db, last'.ino)
        /\ TagDir(db, last'.ino) = {}
        /\ is_file(source, last'.name))
       => /\ ~canonicalize(source', last'.name)
          /\ file_tags(db', to_string_lossy(last'.name)) = {}]_vars

(***************************************************************************)
(* C4  Tagged unlink: after unlink(TagDir(S), f) with S non-empty, f still *)
(* exists with the same bytes, f carries no tag of S, and the tags of f    *)
(* outside S and the tags of every other file are unchanged.               *)
(***************************************************************************)
C4_TaggedUnlink ==
    [][(/\ last'.op = "unlink"
        /\ IsTagDir(db, last'.ino)
        /\ TagDir(db, last'.ino) # {}
        /\ is_file(source, last'.name))
       => LET f == to_string_lossy(last'.name)
              S == TagDir(db, last'.ino)
          IN /\ source' = source
             /\ file_tags(db', f) \cap S = {}
             /\ file_tags(db', f) \ S = file_tags(db, f) \ S
             /\ \A g \in FileKeys \ {f} : file_tags(db', g) = file_tags(db, g)]_vars

(***************************************************************************)
(* C5  Inode bijection: for every Entry e, if inode_or_create(e) returns i *)
(* then entry(i) = e, whether the row existed or was just created.         *)
(***************************************************************************)
Entries(N) ==
    {File(n) : n \in N} \cup {Tags(S) : S \in SUBSET {to_string_lossy(n) : n \in N}}

C5_InodeBijection ==
    \A e \in Entries(LossyNames) :
        LET r == inode_or_create(db, e)
        IN r.ok => entry(r.db, r.val).ok /\ entry(r.db, r.val).val = e

(***************************************************************************)
(* C6  Order independence: for existing tags a # b with no source entry    *)
(* named a or b, lookup(lookup(root, a), b) and lookup(lookup(root, b), a) *)
(* succeed with the same inode number, and afterwards exactly one inode    *)
(* row holds TagDir({a, b}).                                               *)
(***************************************************************************)
Enterable(a, b) ==
    /\ a # b
    /\ {to_string_lossy(a), to_string_lossy(b)} \subseteq TagNames(db)
    /\ ~canonicalize(source, a)
    /\ ~canonicalize(source, b)

Memberships(d) == BagToSet(d.file_tags)

C7_RmdirCascade ==
    [][(/\ last'.op = "rmdir"
        /\ to_string_lossy(last'.name) \in TagNames(db))
       => LET t == to_string_lossy(last'.name)
              id == tag_id(db, t).val
          IN /\ last'.reply.errno = "OK"
             /\ db'.tags = {r \in db.tags : r.tag # t}
             /\ \A S \in SUBSET FileKeys : t \notin Range(sub_tags(db', S))
             /\ Memberships(db') = {x \in Memberships(db) : x[2] # id}
             /\ \A f \in FileKeys : file_tags(db', f) = file_tags(db, f) \ {t}
             /\ source' = source]_vars

\* An rmdir issued inside a non-root tag directory has deleted a tag while a
\* file of the source keeps a membership in another tag.
C7_Witness ==
    /\ Replied("rmdir", "OK")
    /\ last.ino # FUSE_ROOT_ID
    /\ IsTagDir(db, last.ino)
    /\ to_string_lossy(last.name) \notin TagNames(db)
    /\ \E f \in RegularFiles(source) : file_tags(db, to_string_lossy(f)) # {}

(***************************************************************************)
(* C8  link(ino, newparent, newname) with entry(ino) = File(N) and         *)
(* entry(newparent) = TagDir(S'): the tags of N become the old ones        *)
(* together with S', also when N already carries tags of S'; no other      *)
(* file's tags and no backing file change.                                 *)
(***************************************************************************)
C8_LinkAdds ==
    [][(/\ last'.op = "link"
        /\ IsFileIno(db, last'.ino)
        /\ IsTagDir(db, last'.newparent))
       => LET f == to_string_lossy(entry(db, last'.ino).val.name)
              T == TagDir(db, last'.newparent)
          IN /\ file_tags(db', f) = file_tags(db, f) \cup T
             /\ \A g \in FileKeys \ {f} : file_tags(db', g) = file_tags(db, g)
             /\ source' = source]_vars

(***************************************************************************)
(* C9  Files shadow tags: when source/n is a regular file, lookup of n in  *)
(* TagDir(S) answers with the regular file under the inode of File(n) if   *)
(* S is included in the tags of n and with ENOENT otherwise, whether or    *)
(* not an inode row for File(n) was allocated before.                      *)
(***************************************************************************)
C9_FilesShadowTags ==
    [][(/\ last'.op = "lookup"
        /\ IsTagDir(db, last'.ino)
        /\ is_file(source, last'.name))
       => IF TagDir(db, last'.ino) \subseteq file_tags(db, to_string_lossy(last'.name))
          THEN /\ last'.reply.errno = "OK"
               /\ last'.reply.kind = "RegularFile"
               /\ entry(db', last'.reply.ino) = Ok(db', File(last'.name))
          ELSE last'.reply.errno = "ENOENT"]_vars

(***************************************************************************)
(* C10  Tag probe: for a parent TagDir(S) and a name t that is no entry of *)
(* the source, if t is a tag outside S then lookup answers with a          *)
(* directory whose inode denotes TagDir(S \cup {t}), the row being reused  *)
(* when present and appended when absent; otherwise lookup answers ENOENT  *)
(* and the index is unchanged.                                             *)
(***************************************************************************)
C10_TagProbe ==
    [][(/\ last'.op = "lookup"
        /\ IsTagDir(db, last'.ino)
        /\ ~canonicalize(source, last'.name))
       => LET S == TagDir(db, last'.ino)
              t == to_string_lossy(last'.name)
              child == Tags(S \cup {t})
              old == inode(db, child)
          IN IF t \in TagNames(db) \ S
             THEN /\ last'.reply.errno = "OK"
                  /\ last'.reply.kind = "Directory"
                  /\ entry(db', last'.reply.ino) = Ok(db', child)
                  /\ IF old.ok
                     THEN db' = db /\ last'.reply.ino = old.val
                     ELSE db' = [db EXCEPT !.inodes =
                                     Append(@, discrimimant_data(child))]
             ELSE last'.reply.errno = "ENOENT" /\ db' = db]_vars

\* A lookup inside a non-root tag directory, of a name that is no entry of the
\* source, has answered with the directory of two tags.
C10_Witness ==
    /\ Replied("lookup", "OK")
    /\ last.reply.kind = "Directory"
    /\ last.ino # FUSE_ROOT_ID
    /\ ~canonicalize(source, last.name)
    /\ Cardinality(TagDir(db, last.reply.ino)) = 2

(***************************************************************************)
(* C11  create on a name that is already a regular file of the source      *)
(* replies EEXIST and leaves the source directory, the tag table, the      *)
(* membership relation and the inode table unchanged.                      *)
(***************************************************************************)
\* File creation watched, on a used index.
NextCreate == NextOver(Names, {"create"})

SpecCreate == InitUsed /\ [][NextCreate]_vars

C11_CreateExists ==
    [][(last'.op = "create" /\ is_file(source, last'.name))
       => /\ last'.reply.errno = "EEXIST"
          /\ source' = source
          /\ db' = db
          /\ alive']_vars

\* A create inside a non-root tag directory was refused for a file that
\* carries tags.
C11_Witness ==
    /\ Replied("create", "EEXIST")
    /\ IsTagDir(db, last.ino)
    /\ TagDir(db, last.ino) # {}
    /\ is_file(source, last.name)
    /\ file_tags(db, to_string_lossy(last.name)) # {}

(***************************************************************************)
(* C12  After a successful create(TagDir(S), n) of a name n that was not   *)
(* in the source, n is a regular file of the source, File(n) has an inode  *)
(* and the tags of n are exactly S, whatever happened before.              *)
(***************************************************************************)
C12_CreateMembership ==
    [][(/\ last'.op = "create"
        /\ last'.reply.errno = "OK"
        /\ IsTagDir(db, last'.ino)
        /\ ~canonicalize(source, last'.name))
       => /\ is_file(source', last'.name)
          /\ inode(db', File(last'.name)).ok
          /\ file_tags(db', to_string_lossy(last'.name)) = TagDir(db, last'.ino)]_vars

(***************************************************************************)
(* C13  In every reachable state the inode table holds at most one row per *)
(* (discriminant, data) pair: no Entry has two inode numbers.              *)
(***************************************************************************)
\* The handlers, with two connections running inode_or_create on the same
\* index statement by statement.
RaceEntries == {File(NameA), Tags({to_string_lossy(NameB)})}

InitRace == InitOver(Names, {FreshDb}, OneFile(Names))

NextRace ==
    \/ NextOver(Names, {})
    \/ \E c \in Callers, e \in RaceEntries : Begin(c, e)
    \/ \E c \in Callers : Select(c)
    \/ \E c \in Callers : Insert(c)

SpecRace == InitRace /\ [][NextRace]_vars

C14_RaceFree ==
    \A c1, c2 \in Callers :
        (/\ c1 # c2
         /\ callers[c1].pc = "done"
         /\ callers[c2].pc = "done"
         /\ callers[c1].e = callers[c2].e)
        => /\ callers[c1].ok
           /\ callers[c2].ok
           /\ callers[c1].val = callers[c2].val
           /\ Cardinality({i \in 1..Len(db.inodes) :
                  db.inodes[i] = discrimimant_data(callers[c1].e)}) = 1

(***************************************************************************)
(* C15  Membership idempotence: adding tags to a file, also tags it        *)
(* already carries, does not fail and leaves exactly one membership row    *)
(* for each (file, tag) pair added.                                        *)
(***************************************************************************)
C15_MembershipIdempotent ==
    [][(/\ last'.op = "link"
        /\ IsFileIno(db, last'.ino)
        /\ IsTagDir(db, last'.newparent))
       => LET f == to_string_lossy(entry(db, last'.ino).val.name)
              T == TagDir(db, last'.newparent)
          IN /\ alive'
             /\ \A row \in DOMAIN db'.file_tags : db'.file_tags[row] = 1
             /\ \A t \in T :
                  /\ tag_id(db', t).ok
                  /\ CopiesIn(<<f, tag_id(db', t).val>>, db'.file_tags) = 1]_vars

(***************************************************************************)
(* C16  An inode row, once present, is never deleted or rewritten, also    *)
(* when a tag of its set is removed or its file is unlinked at the root,   *)
(* and a newly allocated inode number is greater than every number         *)
(* allocated before: a lookup answers with the number of an old row or     *)
(* with the number following the last one.                                 *)
(***************************************************************************)
C16_InodesStable ==
    [][/\ Len(db'.inodes) >= Len(db.inodes)
       /\ \A i \in 1..Len(db.inodes) : db'.inodes[i] = db.inodes[i]
       /\ (last'.op = "lookup" /\ last'.reply.errno = "OK")
          => \/ /\ last'.reply.ino \in 1..Len(db.inodes)
                /\ db' = db
             \/ /\ last'.reply.ino = Len(db.inodes) + 1
                /\ Len(db'.inodes) = Len(db.inodes) + 1]_vars

\* The table is at its bound; it still holds the row of a directory one of
\* whose tags was deleted and the row of a file that was unlinked at the root.
C16_Witness ==
    /\ Len(db.inodes) = MaxInodes
    /\ \E i \in 1..Len(db.inodes) :
         IsTagDir(db, i) /\ ~(TagDir(db, i) \subseteq TagNames(db))
    /\ \E i \in 1..Len(db.inodes) :
         IsFileIno(db, i) /\ ~canonicalize(source, entry(db, i).val.name)

(***************************************************************************)
(* C17  init returns Ok only on an index that maps TagDir({}) to           *)
(* FUSE_ROOT_ID, and from then on FUSE_ROOT_ID denotes TagDir({}); on any  *)
(* other index init fails, and no request is served before or without a    *)
(* successful init.                                                        *)
(***************************************************************************)
\* The index a mount may find: seeded with the root row, empty, or with the
\* root row behind the row of a file.
NoRootDb == [FreshDb EXCEPT !.inodes = <<>>]

MisplacedDb == [FreshDb EXCEPT !.inodes = Rows(<<File(NameA), Tags({})>>)]

InitUnmounted ==
    /\ db \in {FreshDb, NoRootDb, MisplacedDb}
    /\ source \in OneFile(Names)
    /\ alive = TRUE
    /\ last = NoCall
    /\ mounted = FALSE
    /\ callers = NoCallers

NextMount == InitMount({"init"}) \/ NextOver(Names, {"init"})

SpecMount == InitUnmounted /\ [][NextMount]_vars

RootOk(d) ==
    /\ inode(d, Tags({})) = Ok(d, FUSE_ROOT_ID)
    /\ entry(d, FUSE_ROOT_ID) = Ok(d, Tags({}))

C17_RootReserved ==
    [][/\ mounted' => RootOk(db')
       /\ ~RootOk(db) => ~mounted'
       /\ ~mounted => db' = db /\ source' = source]_vars

\* A mount whose init returned Ok has served requests: the inode table is at
\* its bound and a tag exists.
C17_Witness ==
    /\ mounted
    /\ Len(db.inodes) = MaxInodes
    /\ db.tags # {}

(***************************************************************************)
(* C18  After mkdir(parent, name) of a name that is no tag yet, name is a  *)
(* tag and no membership has changed; the inode number of the reply        *)
(* denotes TagDir({name}) or is a number no row had before, never the      *)
(* number of another existing Entry.                                       *)
(***************************************************************************)
\* Directory creation watched, on a used index.
NextMkdir == NextOver(Names, {"mkdir"})

SpecMkdir == InitUsed /\ [][NextMkdir]_vars

C18_MkdirReplyInode ==
    [][(/\ last'.op = "mkdir"
        /\ to_string_lossy(last'.name) \notin TagNames(db))
       => LET t == to_string_lossy(last'.name)
          IN /\ t \in TagNames(db')
             /\ db'.file_tags = db.file_tags
             /\ \/ entry(db', last'.reply.ino) = Ok(db', Tags({t}))
                \/ last'.reply.ino \notin 1..Len(db.inodes)]_vars

(***************************************************************************)
(* C19  No two rows of the tag table carry the same name; mkdir of a name  *)
(* that is already a tag leaves the tag table and the memberships          *)
(* unchanged and answers with an error, the filesystem staying up.         *)
(***************************************************************************)
C19_TagNamesUnique ==
    [][/\ \A r, q \in db'.tags : r.tag = q.tag => r = q
       /\ (/\ last'.op = "mkdir"
           /\ to_string_lossy(last'.name) \in TagNames(db))
          => /\ db'.tags = db.tags
             /\ db'.file_tags = db.file_tags
             /\ alive'
             /\ last'.reply.errno \notin {"OK", "PANIC", "NOREPLY"}]_vars

(***************************************************************************)
(* C20  rmdir(parent, name) of a name that is no tag replies ENOENT,       *)
(* leaves tags, memberships and inode rows unchanged, and the filesystem   *)
(* keeps serving.                                                          *)
(***************************************************************************)
C20_RmdirUnknown ==
    [][(/\ last'.op = "rmdir"
        /\ to_string_lossy(last'.name) \notin TagNames(db))
       => /\ last'.reply.errno = "ENOENT"
          /\ db' = db
          /\ alive']_vars

(***************************************************************************)
(* C21  Every operation that takes an inode number (lookup, getattr,       *)
(* setattr, unlink, rename, link, read, write, readdir) replies ENOENT     *)
(* when that number has no row in the inode table, and changes neither     *)
(* the index nor the source.                                               *)
(***************************************************************************)
\* The handlers of file attributes and contents with the others, on a used
\* index.
NextFile == NextOver(Names, {}) \/ NextData({})

SpecFile == InitUsedDir /\ [][NextFile]_vars

\* The handler answered with errno and left the index and the source alone.
Refused(out, errno) ==
    /\ out.reply.errno = errno
    /\ out.db = db
    /\ out.source = source
    /\ out.alive

\* A number no inode row has.
NoRow == Len(db.inodes) + 1

C21_UnknownInode ==
    LET u == NoRow
    IN /\ \A n \in Names :
            /\ Refused(lookup(db, source, u, n), "ENOENT")
            /\ Refused(unlink(db, source, u, n), "ENOENT")
            /\ \A p \in 1..Len(db.inodes), nn \in NewNames :
                 /\ Refused(rename(db, source, u, n, p, nn), "ENOENT")
                 /\ Refused(rename(db, source, p, n, u, nn), "ENOENT")
       /\ \A p \in 1..Len(db.inodes), nn \in NewNames :
            /\ Refused(link(db, source, u, p, nn), "ENOENT")
            /\ Refused(link(db, source, p, u, nn), "ENOENT")
       /\ Refused(getattr(db, source, u), "ENOENT")
       /\ \A size \in Sizes : Refused(setattr(db, source, u, size), "ENOENT")
       /\ \A offset \in 0..MaxOffset : Refused(read(db, source, u, offset, 1), "ENOENT")
       /\ \A data \in Payloads : Refused(write(db, source, u, 0, data), "ENOENT")
       /\ \A offset \in 0..MaxOffset :
            Refused(readdir(db, source, u, offset, BufferEntries), "ENOENT")

(***************************************************************************)
(* C22  An operation applied to the wrong kind of entry replies EINVAL and *)
(* changes nothing: lookup, unlink, rename (either parent), readdir and    *)
(* create with a parent that is a File; link whose ino is a TagDir or      *)
(* whose newparent is a File; setattr and write on a TagDir.  read on a    *)
(* TagDir replies ENODATA.                                                 *)
(***************************************************************************)
FileInos == {i \in 1..Len(db.inodes) : IsFileIno(db, i)}

TagDirInos == {i \in 1..Len(db.inodes) : IsTagDir(db, i)}

C22_WrongKind ==
    /\ \A f \in FileInos, n \in Names :
         /\ Refused(lookup(db, source, f, n), "EINVAL")
         /\ Refused(unlink(db, source, f, n), "EINVAL")
         /\ Refused(create(db, source, f, n), "EINVAL")
         /\ \A p \in TagDirInos, nn \in NewNames :
              /\ Refused(rename(db, source, f, n, p, nn), "EINVAL")
              /\ Refused(rename(db, source, p, n, f, nn), "EINVAL")
    /\ \A f \in FileInos, offset \in 0..MaxOffset :
         Refused(readdir(db, source, f, offset, BufferEntries), "EINVAL")
    /\ \A t \in TagDirInos, p \in TagDirInos, nn \in NewNames :
         Refused(link(db, source, t, p, nn), "EINVAL")
    /\ \A f \in FileInos, g \in FileInos, nn \in NewNames :
         Refused(link(db, source, f, g, nn), "EINVAL")
    /\ \A t \in TagDirInos :
         /\ \A size \in Sizes : Refused(setattr(db, source, t, size), "EINVAL")
         /\ \A data \in Payloads : Refused(write(db, source, t, 0, data), "EINVAL")
         /\ \A offset \in 0..MaxOffset :
              Refused(read(db, source, t, offset, 1), "ENODATA")

(***************************************************************************)
(* C23  When the backing file of an existing File(N) inode is absent from  *)
(* the source, getattr, setattr, read and write on that inode each reply   *)
(* ENOENT and the filesystem keeps running.                                *)
(***************************************************************************)
BackingAbsent(f) == IsFileIno(db, f) /\ ~canonicalize(source, entry(db, f).val.name)

C23_BackingAbsent ==
    \A f \in 1..Len(db.inodes) :
        BackingAbsent(f) =>
            /\ Refused(getattr(db, source, f), "ENOENT")
            /\ \A size \in Sizes : Refused(setattr(db, source, f, size), "ENOENT")
            /\ \A offset \in 0..MaxOffset :
                 Refused(read(db, source, f, offset, 1), "ENOENT")
            /\ \A data \in Payloads : Refused(write(db, source, f, 0, data), "ENOENT")

(***************************************************************************)
(* C24  For a file f visible in TagDir(S) and any TagDir(S'), the rename   *)
(* of f from TagDir(S) to TagDir(S') answers with success; afterwards a    *)
(* readdir of TagDir(S') lists f and, when S \ S' is not empty, a readdir  *)
(* of TagDir(S) does not, also when f carried a tag of S' \ S before.      *)
(***************************************************************************)
\* A complete readdir of the directory lists the regular file name.
Listed(d, src, ino, name) ==
    LET r == readdir(d, src, ino, 0, BufferEntries)
    IN r.reply.errno = "OK" /\ Count(r.reply.entries, "RegularFile", name) >= 1

C24_RenameMoves ==
    [][(/\ last'.op = "rename"
        /\ IsTagDir(db, last'.ino)
        /\ IsTagDir(db, last'.newparent)
        /\ is_file(source, last'.name)
        /\ TagDir(db, last'.ino) \subseteq file_tags(db, to_string_lossy(last'.name)))
       => /\ last'.reply.errno = "OK"
          /\ alive'
          /\ Listed(db', source', last'.newparent, last'.name)
          /\ (TagDir(db, last'.ino) \ TagDir(db, last'.newparent) # {}
              => ~Listed(db', source', last'.ino, last'.name))]_vars

(***************************************************************************)
(* C25  The set of backing files changes only by create, which adds        *)
(* exactly the named file, and by unlink with the root as parent, which    *)
(* removes exactly the named file; lookup, getattr, readdir, mkdir, rmdir, *)
(* rename, link and unlink in a non-root tag directory (and setattr, read  *)
(* and write) never add, remove or rename a backing file.                  *)
(***************************************************************************)
BackingFiles(src) == {<<e.name, e.kind>> : e \in src}

\* The handler left the set of backing files as it is.
SameFiles(out) == BackingFiles(out.source) = BackingFiles(source)

IsRoot(ino) == IsTagDir(db, ino) /\ TagDir(db, ino) = {}

C25_SourceFrame ==
    \A p \in Inos :
        /\ \A n \in Names :
             /\ LET out == create(db, source, p, n)
                    new == BackingFiles(source) \cup {<<n, "file">>}
                IN /\ BackingFiles(out.source) \in {BackingFiles(source), new}
                   /\ out.reply.errno = "OK" => BackingFiles(out.source) = new
             /\ LET out == unlink(db, source, p, n)
                    less == BackingFiles(source) \ {<<n, "file">>}
                IN IF IsRoot(p)
                   THEN /\ BackingFiles(out.source) \in {BackingFiles(source), less}
                        /\ out.reply.errno = "OK" => BackingFiles(out.source) = less
                   ELSE SameFiles(out)
             /\ SameFiles(lookup(db, source, p, n))
             /\ SameFiles(mkdir(db, source, p, n))
             /\ SameFiles(rmdir(db, source, p, n))
             /\ \A q \in Inos, nn \in NewNames :
                  SameFiles(rename(db, source, p, n, q, nn))
        /\ \A q \in Inos, nn \in NewNames : SameFiles(link(db, source, p, q, nn))
        /\ SameFiles(getattr(db, source, p))
        /\ \A offset \in 0..MaxOffset, capacity \in {1, BufferEntries} :
             SameFiles(readdir(db, source, p, offset, capacity))
        /\ \A size \in Sizes : SameFiles(setattr(db, source, p, size))
        /\ \A offset \in 0..MaxOffset : SameFiles(read(db, source, p, offset, 1))
        /\ \A data \in Payloads : SameFiles(write(db, source, p, 0, data))

\* A create has added a file and a root unlink has removed the file of the
\* mount, while memberships exist: an unlink in a tag directory is possible.
C25_Witness ==
    /\ is_file(source, NameB)
    /\ ~canonicalize(source, NameA)
    /\ file_tags(db, to_string_lossy(NameB)) # {}

(***************************************************************************)
(* C26  The unimplemented operations reply ENOSYS, symlink replies EPERM,  *)
(* and open, opendir, release and releasedir succeed, with file handle 0,  *)
(* for any inode number; none of them changes the tag table, the           *)
(* memberships, the inode table or the source.                             *)
(***************************************************************************)
Unimplemented ==
    {"mknod", "readlink", "setxattr", "getxattr", "listxattr", "removexattr",
     "access", "getlk", "setlk", "bmap", "ioctl", "fallocate", "lseek",
     "copy_file_range", "readdirplus", "fsync", "fsyncdir", "flush"}

Trivial == {"open", "opendir", "release", "releasedir"}

StubOps == Unimplemented \cup {"symlink"} \cup Trivial

\* The handlers without effect watched, among the others, with one name.
InitStubs == InitOver({NameA}, {FreshDb}, OneFile({NameA}))

NextStubbed == NextOver({NameA}, StubOps) \/ NextStubs(StubOps)

SpecStubs == InitStubs /\ [][NextStubbed]_vars

C26_Stubs ==
    [][last'.op \in StubOps
       => /\ db' = db
          /\ source' = source
          /\ alive'
          /\ last'.op \in Unimplemented => last'.reply.errno = "ENOSYS"
          /\ last'.op = "symlink" => last'.reply.errno = "EPERM"
          /\ last'.op \in Trivial => last'.reply.errno = "OK"
          /\ last'.op \in {"open", "opendir"} => last'.reply.fh = 0]_vars

\* An open of a number that has no inode row has succeeded with handle 0 on
\* an index that holds a tag, a membership and the inode of a file.
C26_Witness ==
    /\ Replied("open", "OK")
    /\ last.reply.fh = 0
    /\ last.ino = NoRow
    /\ db.tags # {}
    /\ Memberships(db) # {}
    /\ FileInos # {}

(***************************************************************************)
(* C27  Paginated readdir on an unchanging state: for any capacity of the  *)
(* reply buffer of at least one entry, calling readdir from offset 0 and   *)
(* then with the cookie of the last entry received, the cookies received   *)
(* are strictly increasing, the replies put together are the listing a     *)
(* single call gives (each entry once, same order), and the calls end with *)
(* an empty reply after finitely many of them.                             *)
(***************************************************************************)
\* The replies of the calls a reader makes, at most fuel of them: it stops at
\* an error and at an empty reply.
RECURSIVE Paginate(_, _, _, _, _, _)
Paginate(d, src, ino, offset, capacity, fuel) ==
    LET r == readdir(d, src, ino, offset, capacity)
        es == r.reply.entries
    IN IF fuel = 0 THEN <<>>
       ELSE IF r.reply.errno # "OK" \/ es = <<>> THEN <<r.reply>>
       ELSE <<r.reply>>
            \o Paginate(r.db, src, ino, es[Len(es)].cookie, capacity, fuel - 1)

RECURSIVE Concat(_)
Concat(pages) ==
    IF pages = <<>> THEN <<>> ELSE Head(pages).entries \o Concat(Tail(pages))

C27_Pagination ==
    \A ino \in TagDirInos, capacity \in 1..BufferEntries :
        LET whole == readdir(db, source, ino, 0, BufferEntries).reply
            pages == Paginate(db, source, ino, 0, capacity, Len(whole.entries) + 1)
            got == Concat(pages)
        IN /\ whole.errno = "OK" /\ ~whole.full
           /\ got = whole.entries
           /\ \A i, j \in 1..Len(got) : i < j => got[i].cookie < got[j].cookie
           /\ pages # <<>>
           /\ pages[Len(pages)].errno = "OK"
           /\ pages[Len(pages)].entries = <<>>

\* A reader with a buffer of one entry has received its second reply, sent on
\* a full buffer; the directory has three entries or more and the source holds
\* an entry that is not listed.
C27_Witness ==
    /\ Replied("readdir", "OK")
    /\ last.offset = 1
    /\ last.reply.full
    /\ Len(last.reply.entries) = 1
    /\ Len(readdir(db, source, last.ino, 0, BufferEntries).reply.entries) >= 3
    /\ \E e \in source : e.kind = "dir"

(***************************************************************************)
(* C28  Every tuple (ino, cookie, kind, name) a readdir emits is           *)
(* consistent when it is emitted: a RegularFile has entry(ino) =           *)
(* File(name), a Directory has entry(ino) = TagDir({name}); at the root    *)
(* the inode emitted for a tag is the one lookup(root, name) answers with  *)
(* when no backing file has that name.                                     *)
(***************************************************************************)
C28_TuplesConsistent ==
    \A ino \in TagDirInos, offset \in 0..MaxOffset, capacity \in {1, BufferEntries} :
        LET r == readdir(db, source, ino, offset, capacity)
            es == r.reply.entries
        IN \A i \in 1..Len(es) :
              /\ es[i].kind = "RegularFile"
                 => entry(r.db, es[i].ino) = Ok(r.db, File(es[i].name))
              /\ es[i].kind = "Directory"
                 => /\ entry(r.db, es[i].ino) = Ok(r.db, Tags({es[i].name}))
                    /\ (IsRoot(ino) /\ ~canonicalize(source, es[i].name))
                       => LET l == lookup(r.db, source, ino, es[i].name)
                          IN l.reply.errno = "OK" /\ l.reply.ino = es[i].ino

(***************************************************************************)
(* C29  A complete readdir of TagDir(S) never emits the same name twice,   *)
(* and every name it emits resolves through lookup(TagDir(S), name) to an  *)
(* entry of the same kind, also when a backing file has the name of an     *)
(* existing tag.                                                           *)
(***************************************************************************)
C29_NamesResolve ==
    CompleteReaddir =>
        LET es == last.reply.entries
        IN /\ \A i, j \in 1..Len(es) : es[i].name = es[j].name => i = j
           /\ \A i \in 1..Len(es) :
                LET l == lookup(db, source, last.ino, es[i].name)
                IN l.reply.errno = "OK" /\ l.reply.kind = es[i].kind

(***************************************************************************)
(* C30  The tag table changes only through mkdir, which adds one tag, and  *)
(* rmdir, which removes one tag: link, rename, create and unlink never add *)
(* or remove a tag row, also when their parent or newparent is a TagDir    *)
(* inode one of whose tags was deleted by an earlier rmdir.                *)
(***************************************************************************)
\* The handler left the tag table as it is.
SameTags(out) == out.db.tags = db.tags

C30_TagTableFrame ==
    \A p \in Inos :
        /\ \A q \in Inos, nn \in NewNames : SameTags(link(db, source, p, q, nn))
        /\ \A n \in Names :
             /\ \A q \in Inos, nn \in NewNames :
                  SameTags(rename(db, source, p, n, q, nn))
             /\ SameTags(create(db, source, p, n))
             /\ SameTags(unlink(db, source, p, n))
             /\ LET out == mkdir(db, source, p, n)
                IN /\ db.tags \subseteq out.db.tags
                   /\ \A r \in out.db.tags \ db.tags : r.tag = to_string_lossy(n)
                   /\ Cardinality(out.db.tags \ db.tags) <= 1
             /\ LET out == rmdir(db, source, p, n)
                IN /\ out.db.tags \subseteq db.tags
                   /\ \A r \in db.tags \ out.db.tags : r.tag = to_string_lossy(n)
                   /\ Cardinality(db.tags \ out.db.tags) <= 1

(***************************************************************************)
(* C31  Whenever lookup succeeds with a tag directory, and whenever lookup *)
(* or readdir allocates an inode row for a TagDir(S), every tag name of S  *)
(* is in the tag table at that moment, also when the parent passed to      *)
(* lookup was obtained before an rmdir deleted one of its tags.            *)
(***************************************************************************)
C31_TagDirsOverTags ==
    [][/\ (/\ last'.op = "lookup"
           /\ last'.reply.errno = "OK"
           /\ IsTagDir(db', last'.reply.ino))
          => TagDir(db', last'.reply.ino) \subseteq TagNames(db')
       /\ \A i \in (Len(db.inodes) + 1)..Len(db'.inodes) :
            IsTagDir(db', i) => TagDir(db', i) \subseteq TagNames(db')]_vars

(***************************************************************************)
(* C32  Removing memberships that are absent is a no-op: unlink(TagDir(S), *)
(* f) and rename of f out of TagDir(S) succeed, take exactly the tags of S *)
(* from f and leave every other membership as it was, whether f carries    *)
(* all, some or none of S and whether or not every tag of S is still in    *)
(* the tag table; the removal never stops with only part of S removed.     *)
(***************************************************************************)
\* The handler replied OK and exactly the tags of S are gone from file f.
Removed(out, f, S) ==
    /\ out.alive
    /\ out.reply.errno = "OK"
    /\ out.source = source
    /\ \A g \in FileKeys :
         file_tags(out.db, g) = IF g = f THEN file_tags(db, f) \ S
                                ELSE file_tags(db, g)

C32_AbsentRemoval ==
    \A p \in TagDirInos, n \in Names :
        TagDir(db, p) # {}
        => /\ Removed(unlink(db, source, p, n),
                      to_string_lossy(n), TagDir(db, p))
           /\ Removed(rename(db, source, p, n, FUSE_ROOT_ID, n),
                      to_string_lossy(n), TagDir(db, p))

(***************************************************************************)
(* C33  Write/read round trip on a File inode: after write(ino, offset,    *)
(* data) replies with n bytes written, for any offset between 0 and the    *)
(* size of the file, read(ino, offset, n) returns the first n bytes of     *)
(* data, and the bytes of the file outside [offset, offset + n) are as     *)
(* before.                                                                 *)
(***************************************************************************)
\* The File inodes whose backing entry is a regular file.
Writable == {i \in FileInos : is_file(source, entry(db, i).val.name)}

C33_RoundTrip ==
    \A ino \in Writable, data \in Payloads :
        LET name == entry(db, ino).val.name
            old == bytes_of(source, name)
        IN \A offset \in 0..Len(old) :
             LET w == write(db, source, ino, offset, data)
                 n == w.reply.written
                 new == bytes_of(w.source, name)
                 r == read(w.db, w.source, ino, offset, n)
             IN w.reply.errno = "OK"
                => /\ r.reply.errno = "OK"
                   /\ r.reply.data = SubSeq(data, 1, n)
                   /\ \A i \in 1..Len(old) :
                        (i <= offset \/ i > offset + n) => new[i] = old[i]

(***************************************************************************)
(* C34  A deleted tag does not come back with its old assignments: when    *)
(* mkdir creates a tag t that is not in the tag table (in particular after *)
(* an rmdir of t), no file carries t afterwards, no other membership has   *)
(* changed, and a readdir of TagDir({t}) lists no file.                    *)
(***************************************************************************)
C34_NoResurrection ==
    [][(/\ last'.op = "mkdir"
        /\ last'.reply.errno = "OK"
        /\ to_string_lossy(last'.name) \notin TagNames(db))
       => LET t == to_string_lossy(last'.name)
          IN /\ t \in TagNames(db')
             /\ \A f \in FileKeys : file_tags(db', f) = file_tags(db, f) \ {t}
             /\ \A i \in 1..Len(db'.inodes) :
                  (IsTagDir(db', i) /\ TagDir(db', i) = {t})
                  => LET r == readdir(db', source', i, 0, BufferEntries)
                     IN /\ r.reply.errno = "OK"
                        /\ ~r.reply.full
                        /\ \A k \in 1..Len(r.reply.entries) :
                             r.reply.entries[k].kind # "RegularFile"]_vars

\* mkdir has brought back a tag whose directory was known before, with the
\* row id of the deleted tag, while a file of the source carries another tag.
C34_Witness ==
    /\ Replied("mkdir", "OK")
    /\ to_string_lossy(last.name) \in TagNames(db)
    /\ tag_id(db, to_string_lossy(last.name)).val = last.reply.ino
    /\ \E q \in db.tags : q.id < last.reply.ino
    /\ \E i \in TagDirInos : TagDir(db, i) = {to_string_lossy(last.name)}
    /\ \E f \in RegularFiles(source) :
         /\ file_tags(db, to_string_lossy(f)) # {}
         /\ to_string_lossy(last.name) \notin file_tags(db, to_string_lossy(f))

====
